---- MODULE Spec2Model ----
(***************************************************************************)
(* Duplicate-file finder (dedupy).  Two revisions of the program are       *)
(* modelled side by side:                                                  *)
(*   prog = "A" : src/dedupy.py      (size grouping, then one digest per   *)
(*                                    size group, printed group by group)  *)
(*   prog = "B" : src/src/dedupy.py  (size grouping, then a chain of       *)
(*                                    digests merged into one mapping)     *)
(* A Python dict is an insertion-ordered sequence of [key, val] entries.   *)
(* A path is a sequence of names and a name is a sequence of characters,   *)
(* so that str.startswith('.') is computed and not looked up.              *)
(***************************************************************************)
EXTENDS Integers, Sequences, FiniteSets, TLC

\* Longest list of command-line items explored.
MaxItems == 2
\* Most files of one run whose stat, open or read fails.
MaxFailures == 1

(***************************************************************************)
(* The directory tree the runs are made over.                              *)
(*     d/.h   d/a   d/.s/c   d/u/b        ("g" does not exist)             *)
(***************************************************************************)
P_d == << <<"d">> >>
P_h == << <<"d">>, <<".", "h">> >>
P_a == << <<"d">>, <<"a">> >>
P_s == << <<"d">>, <<".", "s">> >>
P_c == << <<"d">>, <<".", "s">>, <<"c">> >>
P_u == << <<"d">>, <<"u">> >>
P_b == << <<"d">>, <<"u">>, <<"b">> >>
P_gone == << <<"g">> >>

FilePaths == {P_h, P_a, P_c, P_b}
DirPaths == {P_d, P_s, P_u}
ItemChoices == {P_d, P_a, P_h, P_s, P_gone}

\* os.walk's (dirs, files) of one directory, in listing order.
ListDir(dir) ==
    IF dir = P_d THEN [dirs |-> << <<".", "s">>, <<"u">> >>,
                       files |-> << <<".", "h">>, <<"a">> >>]
    ELSE IF dir = P_s THEN [dirs |-> <<>>, files |-> << <<"c">> >>]
    ELSE IF dir = P_u THEN [dirs |-> <<>>, files |-> << <<"b">> >>]
    ELSE [dirs |-> <<>>, files |-> <<>>]

\* File contents: a byte length and a tag telling contents of one length apart.
Sizes == {1, 2}
Tags == {0, 1, 2}
Contents == [size : Sizes \cup {0}, tag : Tags]

\* Digest algorithms hashlib.new accepts on the host; "md4" stands for an
\* identifier it rejects with ValueError.
Supported == {"sha1", "sha384"}
HashLists == { <<"sha1">>, <<"sha1", "sha384">>, <<"md4">>, <<"sha1", "md4">> }

\* hexdigest() of a content: a function of the bytes alone, not injective.
\* "sha1" cannot tell tags 0 and 1 apart, "sha384" cannot tell 0 and 2 apart,
\* and neither sees the length.
Digest(h, c) ==
    IF h = "sha1" THEN <<h, c.tag \div 2>> ELSE <<h, c.tag % 2>>

VARIABLES
    prog,               \* which revision runs
    items,              \* args.items
    hash_list,          \* the digest chain handed to the refinement step
    st_ino,             \* path -> inode number (st_dev is the same everywhere)
    data,               \* path -> content of the file
    unstatable,         \* paths whose os.stat raises PermissionError/FileNotFoundError
    pc,                 \* "scan", "hash", "done", "aborted"
    ii,                 \* next item of process_items
    file_count,         \* Counter: file_id -> occurrences
    size_filename_dict, \* size -> paths, as built by group_files_by_size
    dic,                \* _DIC after remove_non_duplicates; B: the stage's input
    out_dict,           \* B: the stage's merged output
    hi,                 \* B: index of hash_name in hash_list
    gi,                 \* index of the group being hashed
    printed,            \* clusters written to stdout, in order
    error,              \* "none", or the exception that ended the run
    failed              \* files whose open or read failed during digesting

vars == <<prog, items, hash_list, st_ino, data, unstatable, pc, ii, file_count,
          size_filename_dict, dic, out_dict, hi, gi, printed, error, failed>>

----------------------------------------------------------------------------
\* dict helpers

Range(s) == {s[i] : i \in 1..Len(s)}

DictKeys(d) == {d[i].key : i \in 1..Len(d)}

DictIndex(d, k) == CHOOSE i \in 1..Len(d) : d[i].key = k

\* d.setdefault(k, []).append(x)
SetDefaultAppend(d, k, x) ==
    IF k \in DictKeys(d)
    THEN [d EXCEPT ![DictIndex(d, k)].val = Append(@, x)]
    ELSE Append(d, [key |-> k, val |-> <<x>>])

\* d[k] = v for one entry: an existing key keeps its place and takes the new value
DictSet(d, e) ==
    IF e.key \in DictKeys(d)
    THEN [d EXCEPT ![DictIndex(d, e.key)].val = e.val]
    ELSE Append(d, e)

RECURSIVE DictUpdateFrom(_, _, _)
DictUpdateFrom(d, other, i) ==
    IF i > Len(other) THEN d
    ELSE DictUpdateFrom(DictSet(d, other[i]), other, i + 1)

\* d.update(other)
DictUpdate(d, other) == DictUpdateFrom(d, other, 1)

RemoveNonDuplicates_KeepAll(d) == d

\* remove_non_duplicates: the entries whose list holds more than one path
remove_non_duplicates(d) == SelectSeq(d, LAMBDA e : Len(e.val) > 1)

----------------------------------------------------------------------------
\* traversal and size grouping

StartsWithDot(name) == Len(name) > 0 /\ name[1] = "."

Exists(path) == path \in DirPaths \/ (path \in FilePaths /\ path \notin unstatable)
IsDir(path) == path \in DirPaths

RECURSIVE Flatten(_)
Flatten(ss) == IF ss = <<>> THEN <<>> ELSE Head(ss) \o Flatten(Tail(ss))

\* os.walk(start), top down, without any pruning: the full names of the files
RECURSIVE WalkAll(_)
WalkAll(dir) ==
    LET e == ListDir(dir) IN
    [i \in 1..Len(e.files) |-> Append(dir, e.files[i])]
      \o Flatten([i \in 1..Len(e.dirs) |-> WalkAll(Append(dir, e.dirs[i]))])

RECURSIVE WalkNoFileFilter(_)
WalkNoFileFilter(dir) ==
    LET e == ListDir(dir)
        dirs == SelectSeq(e.dirs, LAMBDA n : ~StartsWithDot(n))
    IN [i \in 1..Len(e.files) |-> Append(dir, e.files[i])]
         \o Flatten([i \in 1..Len(dirs) |-> WalkNoFileFilter(Append(dir, dirs[i]))])

\* A's process_directory: os.walk with dirs[:] pruned of '.' names and '.' files
\* skipped; the start directory's own name is not looked at.
RECURSIVE WalkVisible(_)
WalkVisible(dir) ==
    LET e == ListDir(dir)
        dirs == SelectSeq(e.dirs, LAMBDA n : ~StartsWithDot(n))
        files == SelectSeq(e.files, LAMBDA n : ~StartsWithDot(n))
    IN [i \in 1..Len(files) |-> Append(dir, files[i])]
         \o Flatten([i \in 1..Len(dirs) |-> WalkVisible(Append(dir, dirs[i]))])

FileId(path) == <<0, st_ino[path]>>

AddFileNoIdentityCheck(fullname, st) ==
    IF fullname \notin FilePaths \/ fullname \in unstatable THEN st
    ELSE IF data[fullname].size = 0 THEN st
    ELSE [st EXCEPT !.map = SetDefaultAppend(@, data[fullname].size, fullname)]

\* A's add_file_to_size_map on st = [count, map], ignore_zero_len left True
add_file_to_size_map(fullname, st) ==
    IF fullname \notin FilePaths \/ fullname \in unstatable THEN st
    ELSE LET id == FileId(fullname) IN
         IF st.count[id] = 0
         THEN LET counted == [st EXCEPT !.count[id] = @ + 1] IN
              IF data[fullname].size = 0 THEN counted
              ELSE [counted EXCEPT
                      !.map = SetDefaultAppend(@, data[fullname].size, fullname)]
         ELSE st

\* B's add_file_to_size_map: counts every sighting, returns on the second
add_file_to_size_map_B(fullname, st) ==
    IF fullname \notin FilePaths \/ fullname \in unstatable THEN st
    ELSE LET id == FileId(fullname)
             counted == [st EXCEPT !.count[id] = @ + 1]
         IN IF counted.count[id] > 1 THEN counted
            ELSE IF data[fullname].size = 0 THEN counted
            ELSE [counted EXCEPT
                    !.map = SetDefaultAppend(@, data[fullname].size, fullname)]

RECURSIVE AddAll(_, _, _, _)
AddAll(p, files, i, st) ==
    IF i > Len(files) THEN st
    ELSE AddAll(p, files, i + 1,
                IF p = "A" THEN add_file_to_size_map(files[i], st)
                ELSE add_file_to_size_map_B(files[i], st))

\* A's process_directory
process_directory(start_dir, st) == AddAll("A", WalkVisible(start_dir), 1, st)

\* B's walk_directories_for_size
walk_directories_for_size(start_dir, st) == AddAll("B", WalkAll(start_dir), 1, st)

\* The paths one item hands to add_file_to_size_map, in order.
Visited(p, item) ==
    IF ~Exists(item) THEN <<>>
    ELSE IF IsDir(item) THEN (IF p = "A" THEN WalkVisible(item) ELSE WalkAll(item))
    ELSE <<item>>

\* One turn of the loop of process_items / process_command_line_items.
ProcessItem ==
    /\ pc = "scan"
    /\ ii <= Len(items)
    /\ LET item == items[ii]
           st == [count |-> file_count, map |-> size_filename_dict]
           st2 == IF ~Exists(item) THEN st
                  ELSE IF IsDir(item)
                       THEN (IF prog = "A" THEN process_directory(item, st)
                             ELSE walk_directories_for_size(item, st))
                       ELSE (IF prog = "A" THEN add_file_to_size_map(item, st)
                             ELSE add_file_to_size_map_B(item, st))
       IN /\ file_count' = st2.count
          /\ size_filename_dict' = st2.map
    /\ ii' = ii + 1
    /\ UNCHANGED <<prog, items, hash_list, st_ino, data, unstatable, pc, dic,
                   out_dict, hi, gi, printed, error, failed>>

\* __main__: _DIC = remove_non_duplicates(_DIC) once group_files_by_size returned
FilterSizes ==
    /\ pc = "scan"
    /\ ii > Len(items)
    /\ dic' = remove_non_duplicates(size_filename_dict)
    /\ pc' = "hash"
    /\ UNCHANGED <<prog, items, hash_list, st_ino, data, unstatable, ii, file_count,
                   size_filename_dict, out_dict, hi, gi, printed, error, failed>>

----------------------------------------------------------------------------
\* digesting

IOOutcomes == {"ok", "open_denied", "read_eio"}

HashPrepend(d, k, x) ==
    IF k \in DictKeys(d)
    THEN [d EXCEPT ![DictIndex(d, k)].val = <<x>> \o @]
    ELSE Append(d, [key |-> k, val |-> <<x>>])

\* hash_files.setdefault(digest, []).append(filename)
HashAppend(d, k, x) == SetDefaultAppend(d, k, x)

\* A's hash_list_of_files from file i on.  io[f] is what the host does to this
\* open/read of f: "open_denied" is the PermissionError/FileNotFoundError of
\* open() (caught, the file is skipped); "read_eio" is an OSError raised by
\* f.read() after a successful open, which no handler encloses.  hashlib.new
\* runs after the open and before the read.
RECURSIVE HashFrom(_, _, _, _, _)
HashFrom(list, h, io, i, acc) ==
    IF i > Len(list) THEN acc
    ELSE LET f == list[i] IN
         IF io[f] = "open_denied"
         THEN HashFrom(list, h, io, i + 1, [acc EXCEPT !.bad = @ \cup {f}])
         ELSE IF h \notin Supported THEN [acc EXCEPT !.err = "ValueError"]
         ELSE IF io[f] = "read_eio"
         THEN [acc EXCEPT !.err = "OSError", !.bad = @ \cup {f}]
         ELSE HashFrom(list, h, io, i + 1,
                       [acc EXCEPT !.dict = HashAppend(@, Digest(h, data[f]), f)])

hash_list_of_files(list, h, io) ==
    HashFrom(list, h, io, 1, [err |-> "none", dict |-> <<>>, bad |-> {}])

\* B's hash_list_of_files: open(filename).read() inside the try, whose handler
\* names PermissionError and FileNotFoundError only; hashlib.new runs after it.
RECURSIVE HashFromB(_, _, _, _, _)
HashFromB(list, h, io, i, acc) ==
    IF i > Len(list) THEN acc
    ELSE LET f == list[i] IN
         IF io[f] = "open_denied"
         THEN HashFromB(list, h, io, i + 1, [acc EXCEPT !.bad = @ \cup {f}])
         ELSE IF io[f] = "read_eio"
         THEN [acc EXCEPT !.err = "OSError", !.bad = @ \cup {f}]
         ELSE IF h \notin Supported THEN [acc EXCEPT !.err = "ValueError"]
         ELSE HashFromB(list, h, io, i + 1,
                        [acc EXCEPT !.dict = SetDefaultAppend(@, Digest(h, data[f]), f)])

hash_list_of_files_B(list, h, io) ==
    HashFromB(list, h, io, 1, [err |-> "none", dict |-> <<>>, bad |-> {}])

\* A's hash_file_list: the first algorithm of hash_list, then the singleton filter
hash_file_list(list_of_files, hl, io) ==
    LET r == hash_list_of_files(list_of_files, hl[1], io)
    IN [r EXCEPT !.dict = remove_non_duplicates(@)]

\* The host's answers to one call: one outcome per file of the list, none for
\* a file the call never reaches, within the failure budget of the run.
IOChoices(list) == [Range(list) -> IOOutcomes]
Hit(io) == {f \in DOMAIN io : io[f] # "ok"}
WithinBudget(io, r) ==
    /\ Hit(io) = r.bad
    /\ Cardinality(unstatable) + Cardinality(failed \cup r.bad) <= MaxFailures

\* A's print_file_clusters, one size group per step.  The chain is the
\* parameter of hash_file_list; __main__ binds it to ["sha1"].
PrintFileClusters ==
    /\ pc = "hash" /\ prog = "A"
    /\ gi <= Len(dic)
    /\ \E io \in IOChoices(dic[gi].val) :
         LET r == hash_file_list(dic[gi].val, hash_list, io) IN
         /\ WithinBudget(io, r)
         /\ failed' = failed \cup r.bad
         /\ IF r.err = "none"
            THEN /\ printed' = printed \o
                        [k \in 1..Len(r.dict) |->
                            [size |-> dic[gi].key, digest |-> r.dict[k].key,
                             files |-> r.dict[k].val]]
                 /\ gi' = gi + 1
                 /\ UNCHANGED <<pc, error>>
            ELSE /\ pc' = "aborted"
                 /\ error' = r.err
                 /\ UNCHANGED <<printed, gi>>
    /\ UNCHANGED <<prog, items, hash_list, st_ino, data, unstatable, ii, file_count,
                   size_filename_dict, dic, out_dict, hi>>

\* A: the loop of print_file_clusters ran out of groups
FinishA ==
    /\ pc = "hash" /\ prog = "A"
    /\ gi > Len(dic)
    /\ pc' = "done"
    /\ UNCHANGED <<prog, items, hash_list, st_ino, data, unstatable, ii, file_count,
                   size_filename_dict, dic, out_dict, hi, gi, printed, error, failed>>

MergeByExtending(d, other) ==
    LET RECURSIVE Ext(_, _)
        Ext(acc, i) ==
            IF i > Len(other) THEN acc
            ELSE Ext(IF other[i].key \in DictKeys(acc)
                     THEN [acc EXCEPT ![DictIndex(acc, other[i].key)].val =
                                          @ \o other[i].val]
                     ELSE Append(acc, other[i]), i + 1)
    IN Ext(d, 1)

\* out_dict.update(some_other_dict)
MergeStage(d, other) == DictUpdate(d, other)

\* B's group_files_by_hash_function, one file_list of dic.values() per step
HashGroupB ==
    /\ pc = "hash" /\ prog = "B"
    /\ hi <= Len(hash_list)
    /\ gi <= Len(dic)
    /\ \E io \in IOChoices(dic[gi].val) :
         LET r == hash_list_of_files_B(dic[gi].val, hash_list[hi], io) IN
         /\ WithinBudget(io, r)
         /\ failed' = failed \cup r.bad
         /\ IF r.err = "none"
            THEN /\ out_dict' = MergeStage(out_dict, remove_non_duplicates(r.dict))
                 /\ gi' = gi + 1
                 /\ UNCHANGED <<pc, error>>
            ELSE /\ pc' = "aborted"
                 /\ error' = r.err
                 /\ UNCHANGED <<out_dict, gi>>
    /\ UNCHANGED <<prog, items, hash_list, st_ino, data, unstatable, ii, file_count,
                   size_filename_dict, dic, hi, printed>>

StaleStageInput(d, out) == d

\* dic = out_dict at the end of one turn of the loop over hash_list
NextStageInput(d, out) == out

\* B: the stage's groups are all hashed and another hash_name follows
NextStageB ==
    /\ pc = "hash" /\ prog = "B"
    /\ gi > Len(dic)
    /\ hi < Len(hash_list)
    /\ dic' = NextStageInput(dic, out_dict)
    /\ out_dict' = <<>>
    /\ hi' = hi + 1
    /\ gi' = 1
    /\ UNCHANGED <<prog, items, hash_list, st_ino, data, unstatable, pc, ii,
                   file_count, size_filename_dict, printed, error, failed>>

\* B: the last stage returned; print_grouped_files writes its out_dict
PrintGroupedFiles ==
    /\ pc = "hash" /\ prog = "B"
    /\ gi > Len(dic)
    /\ hi = Len(hash_list)
    /\ printed' = [k \in 1..Len(out_dict) |->
                      [digest |-> out_dict[k].key, files |-> out_dict[k].val]]
    /\ pc' = "done"
    /\ UNCHANGED <<prog, items, hash_list, st_ino, data, unstatable, ii, file_count,
                   size_filename_dict, dic, out_dict, hi, gi, error, failed>>

----------------------------------------------------------------------------
\* runs

\* Inode numbers: every path its own file, or one path a hard link to another.
OwnInode == (P_h :> 1) @@ (P_a :> 2) @@ (P_c :> 3) @@ (P_b :> 4)
InodeMaps ==
    {OwnInode} \cup
    {[OwnInode EXCEPT ![q] = OwnInode[p]] :
        <<p, q>> \in {pq \in FilePaths \X FilePaths : OwnInode[pq[1]] < OwnInode[pq[2]]}}

SameFileSameData(ino, dt) ==
    \A p, q \in FilePaths : ino[p] = ino[q] => dt[p] = dt[q]

ItemLists == UNION {[1..n -> ItemChoices] : n \in 1..MaxItems}

Failing == {s \in SUBSET FilePaths : Cardinality(s) <= MaxFailures}

InitCommon ==
    /\ prog \in {"A", "B"}
    /\ pc = "scan"
    /\ ii = 1
    /\ file_count = [id \in {0} \X (1..Cardinality(FilePaths)) |-> 0]
    /\ size_filename_dict = <<>>
    /\ dic = <<>>
    /\ out_dict = <<>>
    /\ hi = 1
    /\ gi = 1
    /\ printed = <<>>
    /\ error = "none"
    /\ failed = {}

\* Runs that exercise the traversal: any short list of items, hard links,
\* empty files and files that cannot be stat'ed; every file has the same bytes
\* up to its length.
InitScan ==
    /\ InitCommon
    /\ items \in ItemLists
    /\ st_ino \in InodeMaps
    /\ data \in [FilePaths -> {c \in Contents : c.tag = 0 /\ c.size \in {0, 1}}]
    /\ SameFileSameData(st_ino, data)
    /\ unstatable \in Failing
    /\ hash_list = <<"sha1">>

\* Runs that exercise the digesting: the whole tree is named (the hidden
\* entries directly, so that revision A admits them too), every file is
\* non-empty and its own inode, and lengths, bytes and the chain vary.
InitRefine ==
    /\ InitCommon
    /\ items = <<P_d, P_h, P_s>>
    /\ st_ino = OwnInode
    /\ data \in [FilePaths -> {c \in Contents : c.size \in Sizes}]
    /\ unstatable = {}
    /\ hash_list \in HashLists

Init == InitScan \/ InitRefine

Next ==
    \/ ProcessItem
    \/ FilterSizes
    \/ PrintFileClusters
    \/ FinishA
    \/ HashGroupB
    \/ NextStageB
    \/ PrintGroupedFiles

Spec == Init /\ [][Next]_vars

----------------------------------------------------------------------------
\* properties

Clusters(d) == {d[i].val : i \in 1..Len(d)}
ReportedClusters == {printed[i].files : i \in 1..Len(printed)}

\* The paths of the size mapping, group after group.
Admitted == Flatten([i \in 1..Len(size_filename_dict) |-> size_filename_dict[i].val])

\* The paths handed to add_file_to_size_map so far, in order.
VisitedSoFar == Flatten([k \in 1..(ii - 1) |-> Visited(prog, items[k])])

PosIn(list, f) == CHOOSE i \in 1..Len(list) : list[i] = f
GroupOf(f) ==
    CHOOSE i \in 1..Len(size_filename_dict) : f \in Range(size_filename_dict[i].val)

\* C1: every cluster the pipeline produces (the surviving size groups, the
\* merged digest groups of a stage, the clusters printed) has at least 2 paths.
C1_NoSingletonCluster ==
    \A c \in Clusters(dic) \cup Clusters(out_dict) \cup ReportedClusters : Len(c) >= 2

C1_Witness ==
    /\ pc = "done"
    /\ printed # <<>>
    /\ failed # {}
    /\ \E i \in 1..Len(size_filename_dict) : Len(size_filename_dict[i].val) = 1

\* C2 as claimed: two files of one reported cluster have the same digest under
\* every algorithm of the chain handed to the refinement step.
C2_AllChainDigestsAgree ==
    \A c \in ReportedClusters : \A f, g \in Range(c) : \A k \in 1..Len(hash_list) :
        hash_list[k] \in Supported =>
            Digest(hash_list[k], data[f]) = Digest(hash_list[k], data[g])

\* C2 amended: under hash_file_list (A) the members of a cluster agree under
\* the first algorithm of the chain, the only one it applies; under
\* group_files_by_hash_function (B) they agree under every algorithm.
C2_AppliedDigestsAgree ==
    \A c \in ReportedClusters : \A f, g \in Range(c) :
        \A k \in 1..(IF prog = "A" THEN 1 ELSE Len(hash_list)) :
            /\ hash_list[k] \in Supported
            /\ Digest(hash_list[k], data[f]) = Digest(hash_list[k], data[g])

C2_Witness ==
    /\ prog = "B" /\ pc = "done"
    /\ Len(hash_list) = 2
    /\ printed # <<>>
    /\ \E f, g \in Range(Admitted) :
         /\ data[f].size = data[g].size
         /\ Digest(hash_list[1], data[f]) = Digest(hash_list[1], data[g])
         /\ Digest(hash_list[2], data[f]) # Digest(hash_list[2], data[g])
         /\ f \notin failed /\ g \notin failed
         /\ \A c \in ReportedClusters : ~({f, g} \subseteq Range(c))

\* C3: two files of different byte lengths are never in one cluster.
C3_ClusterOfOneSize ==
    \A c \in Clusters(dic) \cup Clusters(out_dict) \cup ReportedClusters :
        \A f, g \in Range(c) : data[f].size = data[g].size

C3_Witness ==
    /\ prog = "B" /\ pc = "done"
    /\ \E c \in ReportedClusters : \E f \in Range(c) : \E g \in Range(Admitted) :
         /\ data[g].size # data[f].size
         /\ Len(size_filename_dict[GroupOf(g)].val) > 1
         /\ g \notin failed
         /\ \A k \in 1..Len(hash_list) :
               Digest(hash_list[k], data[f]) = Digest(hash_list[k], data[g])

\* C4: the size mapping holds at most one path per (st_dev, st_ino), and it is
\* the first path of that identity that was stat'ed.
C4_OnePathPerIdentity ==
    LET adm == Admitted
        vis == VisitedSoFar
    IN /\ \A x, y \in 1..Len(adm) : x # y => FileId(adm[x]) # FileId(adm[y])
       /\ \A p \in Range(adm) :
             \E x \in 1..Len(vis) :
                /\ vis[x] = p
                /\ \A y \in 1..(x - 1) :
                      vis[y] \in unstatable \/ FileId(vis[y]) # FileId(p)

C4_Witness ==
    /\ pc = "done"
    /\ LET vis == VisitedSoFar IN
       \E p \in Range(Admitted) : \E q \in Range(vis) :
          q # p /\ q \notin unstatable /\ FileId(q) = FileId(p)

\* C5 as claimed: a file whose open or read fails while digesting is left out
\* of the clusters and the run goes on; no such error ends the run.
C5_ReadErrorAbsorbed ==
    /\ \A c \in ReportedClusters : Range(c) \cap failed = {}
    /\ ~(pc = "aborted" /\ error = "OSError")

\* C6 as claimed: an unsupported algorithm identifier is reported before any
\* traversal, stat or read has taken place.
C6_ChainCheckedBeforeScan ==
    error = "ValueError" => (ii = 1 /\ size_filename_dict = <<>> /\ failed = {})

\* C7 as claimed: once a run of A has ended, two admitted, readable files of
\* the same length and the same digest are together in one printed cluster
\* that carries that length and that digest.
C7_SameContentClustered ==
    (prog = "A" /\ pc \in {"done", "aborted"} /\ hash_list[1] \in Supported) =>
        \A f, g \in Range(Admitted) :
            (/\ f # g
             /\ f \notin failed /\ g \notin failed
             /\ data[f].size = data[g].size
             /\ Digest(hash_list[1], data[f]) = Digest(hash_list[1], data[g]))
            => \E i \in 1..Len(printed) :
                  /\ {f, g} \subseteq Range(printed[i].files)
                  /\ printed[i].size = data[f].size
                  /\ printed[i].digest = Digest(hash_list[1], data[f])

IsBelow(dir, p) ==
    /\ Len(dir) < Len(p)
    /\ \A m \in 1..Len(dir) : p[m] = dir[m]

C9_OrderPreserved ==
    /\ \A i \in 1..Len(printed) : \A x, y \in 1..Len(printed[i].files) :
          x < y =>
            LET f == printed[i].files[x]
                g == printed[i].files[y]
            IN /\ GroupOf(f) = GroupOf(g)
               /\ PosIn(size_filename_dict[GroupOf(f)].val, f)
                     < PosIn(size_filename_dict[GroupOf(g)].val, g)
    /\ prog = "A" =>
          /\ \A a, b \in 1..Len(dic) :
                a < b => GroupOf(dic[a].val[1]) < GroupOf(dic[b].val[1])
          /\ \A a \in 1..Len(dic) : dic[a] = size_filename_dict[GroupOf(dic[a].val[1])]
          /\ \A a, b \in 1..Len(printed) :
                a < b =>
                  LET f == printed[a].files[1]
                      g == printed[b].files[1]
                  IN \/ GroupOf(f) < GroupOf(g)
                     \/ /\ GroupOf(f) = GroupOf(g)
                        /\ PosIn(size_filename_dict[GroupOf(f)].val, f)
                              < PosIn(size_filename_dict[GroupOf(g)].val, g)

C9_Witness ==
    /\ prog = "A" /\ pc = "done"
    /\ Len(printed) = 2
    /\ GroupOf(printed[1].files[1]) = GroupOf(printed[2].files[1])
    /\ PosIn(size_filename_dict[1].val, printed[2].files[1])
          < PosIn(size_filename_dict[1].val, printed[1].files[2])

\* C10 as claimed: within one stage of B a cluster merged into out_dict stays
\* there; a later group's result does not replace it.
C10_NoClusterReplaced ==
    [][(prog = "B" /\ pc = "hash" /\ hi' = hi) =>
          \A i \in 1..Len(out_dict) :
              \E j \in 1..Len(out_dict') : out_dict'[j] = out_dict[i]]_vars

====
